---- MODULE Spec2Model ----
(***************************************************************************)
(* The serverless request gateway of the hospital-management API           *)
(* (src/unnamed/part_000): the process-wide connection cache               *)
(* (cachedDb / connectToDatabase), the fixed middleware chain, the         *)
(* connection gate, the route table, the 404 responder and the error sink. *)
(*                                                                         *)
(* One Node.js process: every synchronous run of middleware is one atomic  *)
(* step; a request is suspended only while its body is read, while its     *)
(* own mongoose.connect() call is pending, and inside a delegated handler. *)
(***************************************************************************)
EXTENDS Integers, Sequences, FiniteSets, TLC

\* ------------------------------------------------------------------ bounds

\* Number of requests one process lifetime serves in the model.
NumReqs == 2

Reqs == 1..NumReqs

\* ------------------------------------------------------- program constants

\* mongoose.connection.readyState values (line 54 and 130 compare with 1).
Disconnected == 0
Connected == 1
Connecting == 2

\* `let cachedDb = null` (line 51).
Null == "null"

\* mongoose.connect() resolves to the mongoose singleton itself: every
\* successful call yields the same object (line 62).
Mongoose == "mongoose"

Methods == {"GET", "POST", "OPTIONS"}

\* Request paths, as their segments: /api/health is <<"api", "health">>.
Paths ==
    { <<"api", "health">>,
      <<"api", "patients", "7">>,
      <<"api", "theatre-procedures">>,
      <<"api", "nope">>,
      <<"index.html">> }

\* Request bodies by what the body parser makes of them: no body, a JSON
\* body within the 10mb limit, such a body that carries query-operator
\* keys, a body over the limit (lines 99-100).
Bodies == {"none", "small", "sigil", "oversized"}

\* The keys of the JSON object a body decodes to, each key as its
\* characters: {"name": ...} and
\* {"$where": "1==1", "name": ..., "a$b": ..., "a.b": ...}.
BodyKeys(b) ==
    CASE b = "small" -> { <<"n", "a", "m", "e">> }
      [] b = "sigil" -> { <<"$", "w", "h", "e", "r", "e">>,
                          <<"n", "a", "m", "e">>,
                          <<"a", "$", "b">>,
                          <<"a", ".", "b">> }
      [] OTHER -> {}

\* The requests the model sends: only a POST carries a body, and POSTs go
\* to a mounted route group (with the body that carries operator keys
\* beside plain ones) or to an unmatched /api/ path (with the plain body).
IsRequest(m, p, b) ==
    /\ (b # "none") <=> (m = "POST")
    /\ m = "POST" => p \in { <<"api", "patients", "7">>, <<"api", "nope">> }
    /\ b = "sigil" => p = <<"api", "patients", "7">>
    /\ b = "small" => p = <<"api", "nope">>

\* process.env.MONGODB_URI (line 62) and process.env.NODE_ENV (lines 118, 129).
MongoUris == {"set", "unset"}
NodeEnvs == {"development", "production", "unset"}

\* The mounted route groups in mounting order (lines 135-165).
RouteTable ==
    << <<"api", "auth">>, <<"api", "users">>, <<"api", "patients">>,
       <<"api", "doctors">>, <<"api", "surgeons">>, <<"api", "nurses">>,
       <<"api", "departments">>, <<"api", "appointments">>,
       <<"api", "visits">>, <<"api", "wards">>, <<"api", "beds">>,
       <<"api", "ipd-records">>, <<"api", "dashboard">>,
       <<"api", "lab-tests">>, <<"api", "radiology">>,
       <<"api", "theatres">>, <<"api", "theatre-procedures">>,
       <<"api", "prescriptions">>, <<"api", "medicines">>,
       <<"api", "billing">>, <<"api", "services">>, <<"api", "stock">>,
       <<"api", "dispensing">>, <<"api", "direct-dispensing">>,
       <<"api", "requisitions">>, <<"api", "item-pricing">>,
       <<"api", "item-receiving">>, <<"api", "incoming-items">>,
       <<"api", "corpses">>, <<"api", "cabinets">>, <<"api", "releases">> >>

\* --------------------------------------------------------------- the state

VARIABLES
    cachedDb,      \* the module-level cache (line 51)
    readyState,    \* mongoose.connection.readyState
    mongoUri,      \* process.env.MONGODB_URI
    nodeEnv,       \* process.env.NODE_ENV
    reqs,          \* per request: where it is and what happened to it
    connectCalls,  \* how often mongoose.connect() was invoked
    nArrived,      \* requests that have arrived so far
    nHandled       \* requests the gate has let through or answered so far

vars == <<cachedDb, readyState, mongoUri, nodeEnv, reqs, connectCalls,
          nArrived, nHandled>>

\* ----------------------------------------------------------------- helpers

RECURSIVE PathStr(_)
\* The request URL as text (req.originalUrl, line 171).
PathStr(p) ==
    IF p = <<>> THEN "" ELSE "/" \o Head(p) \o PathStr(Tail(p))

\* Express mounts a router at a prefix and matches it at segment boundaries.
IsPrefix(prefix, path) ==
    /\ Len(prefix) <= Len(path)
    /\ SubSeq(path, 1, Len(prefix)) = prefix

\* A request that has not arrived yet, and a response not yet sent.
NoRes ==
    [ by |-> "none", code |-> 0, status |-> "none", message |-> "none",
      error |-> "undefined", mongoStatus |-> "absent",
      environment |-> "absent", empty |-> FALSE ]

NewReq ==
    [ pc |-> "new", method |-> "none", path |-> <<>>, body |-> "none",
      stages |-> <<>>, target |-> "none", res |-> NoRes,
      ensure |-> "none", seenCached |-> Null, seenState |-> Disconnected,
      primitive |-> FALSE, attempts |-> 0, handle |-> Null,
      handledAt |-> 0, raised |-> 0, input |-> {} ]

\* The process-wide values a middleware run reads and writes.
Globals ==
    [ cachedDb |-> cachedDb, readyState |-> readyState,
      connectCalls |-> connectCalls, nHandled |-> nHandled,
      mongoUri |-> mongoUri, nodeEnv |-> nodeEnv ]

Ran(q, stage) == [q EXCEPT !.stages = Append(@, stage)]

\* res.status(code).json(body) / res.end(): the request is answered.
Respond(q, r) == [q EXCEPT !.pc = "done", !.res = r]

\* ------------------------------------------------------------ error sink

\* errorHandler (../server/middleware/errorHandler.js, mounted at line 176):
\* the envelope {status: "error", message, error?}, the failure's own status
\* if it has one and 500 otherwise, raw detail in development only.
ErrorHandler(q, g, code, message, detail) ==
    Respond(Ran(q, "errorHandler"),
            [ NoRes EXCEPT !.by = "errorHandler", !.code = code,
                           !.status = "error", !.message = message,
                           !.error = IF g.nodeEnv = "development"
                                     THEN detail ELSE "undefined" ])

\* ---------------------------------------------------------------- router

\* The first mounted route group whose prefix matches, 0 if none.
MountedGroup(path) ==
    IF \E i \in 1..Len(RouteTable) : IsPrefix(RouteTable[i], path)
    THEN CHOOSE i \in 1..Len(RouteTable) :
            /\ IsPrefix(RouteTable[i], path)
            /\ \A j \in 1..(i - 1) : ~IsPrefix(RouteTable[j], path)
    ELSE 0

\* app.get('/api/health', ...) (line 124).
IsHealth(method, path) == method = "GET" /\ path = <<"api", "health">>

\* app.use('/api/*', ...) (line 168).
IsApiPath(path) == Len(path) >= 2 /\ path[1] = "api"

\* Which layer after the gate takes the request (lines 124-173).
\* Mutant: the '/api/*' responder is registered before the route groups.
Dispatch_CatchAllFirst(method, path) ==
    IF IsHealth(method, path) THEN "health"
    ELSE IF IsApiPath(path) THEN "notFound"
    ELSE IF MountedGroup(path) # 0 THEN PathStr(RouteTable[MountedGroup(path)])
    ELSE "finalhandler"

Dispatch(method, path) ==
    IF IsHealth(method, path) THEN "health"
    ELSE IF MountedGroup(path) # 0 THEN PathStr(RouteTable[MountedGroup(path)])
    ELSE IF IsApiPath(path) THEN "notFound"
    ELSE "finalhandler"

\* Mutant: the readyState comparison of the health handler is inverted.
HealthResponse_Inverted(g) ==
    [ NoRes EXCEPT !.by = "health", !.code = 200, !.status = "success",
                   !.message = "Hospital Management API is running",
                   !.environment = IF g.nodeEnv = "unset" THEN "production"
                                   ELSE g.nodeEnv,
                   !.mongoStatus = IF g.readyState # Connected
                                   THEN "connected" ELSE "disconnected" ]

\* The health handler's answer (lines 125-131).
HealthResponse(g) ==
    [ NoRes EXCEPT !.by = "health", !.code = 200, !.status = "success",
                   !.message = "Hospital Management API is running",
                   !.environment = IF g.nodeEnv = "unset" THEN "production"
                                   ELSE g.nodeEnv,
                   !.mongoStatus = IF g.readyState = Connected
                                   THEN "connected" ELSE "disconnected" ]

\* Mutant: the message names the route pattern (req.route / req.path inside
\* the mount) in place of req.originalUrl.
NotFoundResponse_Pattern(q) ==
    [ NoRes EXCEPT !.by = "notFound", !.code = 404, !.status = "error",
                   !.message = "API route /api/* not found" ]

\* The 404 responder's answer (lines 169-172).
NotFoundResponse(q) ==
    [ NoRes EXCEPT !.by = "notFound", !.code = 404, !.status = "error",
                   !.message = "API route " \o PathStr(q.path) \o " not found" ]

\* Express's own final handler for a path no layer takes: a plain 404 page.
FinalResponse(q) ==
    [ NoRes EXCEPT !.by = "finalhandler", !.code = 404,
                   !.message = "Cannot " \o q.method \o " " \o PathStr(q.path) ]

\* The request enters the layers after the gate (lines 123-173).
Router(q, g) ==
    LET t == Dispatch(q.method, q.path)
        q1 == [Ran(q, "router") EXCEPT !.target = t]
    IN  CASE t = "health" -> Respond(q1, HealthResponse(g))
          [] t = "notFound" -> Respond(q1, NotFoundResponse(q1))
          [] t = "finalhandler" -> Respond(q1, FinalResponse(q1))
          [] OTHER -> [q1 EXCEPT !.pc = "handler"]

\* ------------------------------------------------------- connection cache

\* Mutant: the cache test never succeeds (readyState compared with a value
\* it never has), so every call reconnects.
IsCachedAndConnected_Never(cached, state) == FALSE

\* Mutant: the cache test looks at the cache only, `if (cachedDb)`.
IsCachedAndConnected_CacheOnly(cached, state) == cached # Null

\* The cache test of connectToDatabase (line 54).
IsCachedAndConnected(cached, state) == cached # Null /\ state = Connected

\* Mutant: every call opens a connection of its own
\* (mongoose.createConnection() in place of mongoose.connect()).
ConnectResult_PerCall(r) == IF r = 1 THEN Mongoose ELSE "connection2"

\* What a resolved mongoose.connect() hands back as `db` (line 62).
ConnectResult(r) == Mongoose

\* Mutant: the assignment to the cache is missing.
CacheAfterSuccess_NoWrite(cached, db) == cached

\* `cachedDb = db` (line 70).
CacheAfterSuccess(cached, db) == db

\* Mutant: the handle is put in the cache before the connection is known
\* to be open, so a failed attempt leaves it there.
CacheAfterFailure_HalfOpen(cached) == Mongoose

\* Mutant: the catch block resets the cache, `cachedDb = null`.
CacheAfterFailure_Clears(cached) == Null

\* The catch block of connectToDatabase logs and rethrows (lines 73-76):
\* the cache is left as it was.
CacheAfterFailure(cached) == cached

\* -------------------------------------------------------- connection gate

\* `await connectToDatabase()` returned: next() (line 112).
GateProceed(q, g) ==
    LET g1 == [g EXCEPT !.nHandled = @ + 1]
    IN  [ q |-> Router([q EXCEPT !.handledAt = g1.nHandled], g1), g |-> g1 ]

\* Mutant: the detail is withheld in production only
\* (NODE_ENV !== 'production'), so an unset flag exposes it.
GateFailureResponse_UnlessProduction(g, detail) ==
    [ NoRes EXCEPT !.by = "gate", !.code = 500, !.status = "error",
                   !.message = "Database connection failed",
                   !.error = IF g.nodeEnv # "production"
                             THEN detail ELSE "undefined" ]

\* The gate's own answer to a connection failure (lines 113-120).
GateFailureResponse(g, detail) ==
    [ NoRes EXCEPT !.by = "gate", !.code = 500, !.status = "error",
                   !.message = "Database connection failed",
                   !.error = IF g.nodeEnv = "development"
                             THEN detail ELSE "undefined" ]

\* Mutant: the catch block logs and rethrows like connectToDatabase's own:
\* nothing answers the request.
GateFail_Rethrow(q, g, detail) ==
    [ q |-> [q EXCEPT !.pc = "unanswered", !.ensure = "failed"], g |-> g ]

\* Mutant: the catch block logs the failure and calls next() all the same.
GateFail_Proceeds(q, g, detail) ==
    LET g1 == [g EXCEPT !.nHandled = @ + 1]
    IN  [ q |-> Router([q EXCEPT !.handledAt = g1.nHandled,
                                 !.ensure = "failed"], g1),
          g |-> g1 ]

\* Mutant: the catch block hands the failure to the error sink, next(error).
GateFail_NextError(q, g, detail) ==
    LET g1 == [g EXCEPT !.nHandled = @ + 1]
    IN  [ q |-> ErrorHandler([q EXCEPT !.handledAt = g1.nHandled,
                                       !.ensure = "failed"],
                             g1, 500, "Database connection failed", detail),
          g |-> g1 ]

\* Mutant: the catch block calls connectToDatabase() once more before it
\* gives up.
GateFail_Retry(q, g, detail) ==
    IF q.attempts < 2 /\ g.mongoUri = "set"
    THEN [ q |-> [q EXCEPT !.pc = "connecting", !.attempts = @ + 1],
           g |-> [g EXCEPT !.connectCalls = @ + 1,
                           !.readyState = IF @ = Connected THEN Connected
                                          ELSE Connecting] ]
    ELSE LET g1 == [g EXCEPT !.nHandled = @ + 1]
         IN  [ q |-> Respond([q EXCEPT !.handledAt = g1.nHandled,
                                       !.ensure = "failed"],
                             GateFailureResponse(g1, detail)),
               g |-> g1 ]

\* `await connectToDatabase()` threw: the catch block of the gate.
GateFail(q, g, detail) ==
    LET g1 == [g EXCEPT !.nHandled = @ + 1,
                        !.cachedDb = CacheAfterFailure(@)]
    IN  [ q |-> Respond([q EXCEPT !.handledAt = g1.nHandled,
                                  !.ensure = "failed"],
                        GateFailureResponse(g1, detail)),
          g |-> g1 ]

\* The gate middleware up to its first suspension (lines 109-111 and
\* 53-68): the cached handle is returned without I/O, or mongoose.connect()
\* is invoked.  An unset connection string makes the call throw at once.
ConnectionGate(q, g) ==
    LET q1 == [Ran(q, "gate") EXCEPT !.seenCached = g.cachedDb,
                                     !.seenState = g.readyState]
    IN  IF IsCachedAndConnected(g.cachedDb, g.readyState)
        THEN GateProceed([q1 EXCEPT !.ensure = "warm",
                                    !.handle = g.cachedDb], g)
        ELSE LET g1 == [g EXCEPT !.connectCalls = @ + 1]
                 q2 == [q1 EXCEPT !.primitive = TRUE, !.attempts = @ + 1]
             IN  IF g.mongoUri = "unset"
                 THEN GateFail(q2, g1, "uri must be a string")
                 ELSE [ q |-> [q2 EXCEPT !.pc = "connecting",
                                         !.ensure = "pending"],
                        g |-> [g1 EXCEPT !.readyState =
                                 IF @ = Connected THEN Connected
                                 ELSE Connecting] ]

\* ------------------------------------------------------ security pipeline

\* express-mongo-sanitize drops every key that begins with $ or contains
\* a dot (line 103).
IsOperatorKey(k) ==
    \/ (Len(k) > 0 /\ k[1] = "$")
    \/ \E i \in 1..Len(k) : k[i] = "."

Sanitized(keys) == {k \in keys : ~IsOperatorKey(k)}

\* Mutant: the sanitizer is mounted but leaves the input as it is
\* (configured with a replacement it never applies).
MongoSanitize_Off(q) == Ran(q, "mongoSanitize")

\* mongoSanitize() as a stage (line 103).
MongoSanitize(q) ==
    [Ran(q, "mongoSanitize") EXCEPT !.input = Sanitized(@)]

\* Mutant: the gate calls next() without awaiting connectToDatabase().
AfterBody_GateOpen(q, g) ==
    GateProceed(
        Ran(Ran(Ran(Ran(Ran(MongoSanitize(Ran(q, "urlencoded")), "xss"),
                        "hpp"), "compression"), "gate"), "router"),
        g)

\* Mutant: compression is mounted before the parameter-pollution guard.
AfterBody_CompressionFirst(q, g) ==
    ConnectionGate(
        Ran(Ran(Ran(MongoSanitize(Ran(q, "urlencoded")), "xss"),
                "compression"), "hpp"),
        g)

\* The stages between body decoding and the gate (lines 100-106), none of
\* which suspends, and then the gate.
AfterBody(q, g) ==
    ConnectionGate(
        Ran(Ran(Ran(MongoSanitize(Ran(q, "urlencoded")), "xss"),
                "hpp"), "compression"),
        g)

\* cors() on an OPTIONS request: status optionsSuccessStatus (line 86),
\* Content-Length 0, res.end().
PreflightResponse ==
    [ NoRes EXCEPT !.by = "cors", !.code = 200, !.empty = TRUE ]

\* Mutant: the JSON parser waits for the end of the request stream also
\* when the request carries no body.
Pipeline_AlwaysReadsBody(q, g) ==
    LET q1 == Ran(q, "cors")
    IN  IF q.method = "OPTIONS"
        THEN [ q |-> Respond(q1, PreflightResponse), g |-> g ]
        ELSE [ q |-> [Ran(Ran(q1, "helmet"), "json") EXCEPT !.pc = "body"],
               g |-> g ]

\* Mutant: cors is configured with preflightContinue, so an OPTIONS request
\* goes on down the chain.
Pipeline_PreflightContinue(q, g) ==
    LET q2 == Ran(Ran(Ran(q, "cors"), "helmet"), "json")
    IN  IF q.body = "none"
        THEN AfterBody(q2, g)
        ELSE [ q |-> [q2 EXCEPT !.pc = "body"], g |-> g ]

\* The chain from the first stage to the first suspension (lines 80-99).
\* The JSON parser calls next() at once for a request without a body and
\* otherwise reads the body from the network.
Pipeline(q, g) ==
    LET q1 == Ran(q, "cors")
    IN  IF q.method = "OPTIONS"
        THEN [ q |-> Respond(q1, PreflightResponse), g |-> g ]
        ELSE LET q2 == Ran(Ran(q1, "helmet"), "json")
             IN  IF q.body = "none"
                 THEN AfterBody(q2, g)
                 ELSE [ q |-> [q2 EXCEPT !.pc = "body"], g |-> g ]

\* Mutant: the parsers are mounted without a limit that the body exceeds.
BodyDecoded_NoLimit(q, g) ==
    AfterBody([q EXCEPT !.input = BodyKeys(q.body)], g)

\* The body has been read (lines 99-100): over the limit the parser raises
\* a 413 error, which skips every later stage up to the error sink.
BodyDecoded(q, g) ==
    IF q.body = "oversized"
    THEN [ q |-> ErrorHandler([q EXCEPT !.raised = 413], g, 413,
                              "request entity too large",
                              "PayloadTooLargeError"),
           g |-> g ]
    ELSE AfterBody([q EXCEPT !.input = BodyKeys(q.body)], g)

\* ------------------------------------------------------------- the actions

Init ==
    /\ cachedDb = Null
    /\ readyState = Disconnected
    /\ mongoUri \in MongoUris
    /\ nodeEnv \in NodeEnvs
    /\ reqs = [r \in Reqs |-> NewReq]
    /\ connectCalls = 0
    /\ nArrived = 0
    /\ nHandled = 0

\* Writes back what a middleware run made of request r and of the globals.
Commit(r, out) ==
    \E o \in {out} :
        /\ reqs' = [reqs EXCEPT ![r] = o.q]
        /\ cachedDb' = o.g.cachedDb
        /\ readyState' = o.g.readyState
        /\ connectCalls' = o.g.connectCalls
        /\ nHandled' = o.g.nHandled
        /\ UNCHANGED <<mongoUri, nodeEnv>>

\* A request arrives and runs the chain up to its first suspension.
Arrive(r) ==
    /\ r = nArrived + 1
    /\ reqs[r].pc = "new"
    /\ \E m \in Methods, p \in Paths, b \in Bodies :
          /\ IsRequest(m, p, b)
          /\ Commit(r, Pipeline([reqs[r] EXCEPT !.method = m, !.path = p,
                                                !.body = b],
                                Globals))
    /\ nArrived' = r

\* The body parser has the whole body of request r.
BodyRead(r) ==
    /\ reqs[r].pc = "body"
    /\ Commit(r, BodyDecoded(reqs[r], Globals))
    /\ UNCHANGED nArrived

\* r's mongoose.connect() call resolves (lines 62-72, then line 112).  Each
\* pending call settles on its own, in any order: the model does not assume
\* that the driver merges concurrent calls into one attempt.
ConnectSucceed(r) ==
    /\ reqs[r].pc = "connecting"
    /\ LET db == ConnectResult(r)
           g1 == [Globals EXCEPT !.readyState = Connected,
                                 !.cachedDb = CacheAfterSuccess(@, db)]
       IN  Commit(r, GateProceed([reqs[r] EXCEPT !.ensure = "ok",
                                                 !.handle = db], g1))
    /\ UNCHANGED nArrived

\* r's mongoose.connect() call rejects: the store is unreachable or server
\* selection timed out (line 66); lines 73-76, then 113-120.
ConnectFail(r) ==
    /\ reqs[r].pc = "connecting"
    /\ LET others == \E o \in Reqs \ {r} : reqs[o].pc = "connecting"
           g1 == [Globals EXCEPT !.readyState =
                     IF @ = Connected THEN Connected
                     ELSE IF others THEN Connecting ELSE Disconnected]
       IN  Commit(r, GateFail(reqs[r], g1, "server selection timed out"))
    /\ UNCHANGED nArrived

\* The delegated route group answers request r.
HandlerRespond(r) ==
    /\ reqs[r].pc = "handler"
    /\ reqs' = [reqs EXCEPT ![r] =
                  Respond(@, [NoRes EXCEPT !.by = "group", !.code = 200,
                                           !.status = "success"])]
    /\ UNCHANGED <<cachedDb, readyState, mongoUri, nodeEnv, connectCalls,
                   nArrived, nHandled>>

\* The delegated route group raises a failure: next(err) reaches the sink.
HandlerThrow(r) ==
    /\ reqs[r].pc = "handler"
    /\ reqs' = [reqs EXCEPT ![r] =
                  ErrorHandler([@ EXCEPT !.raised = 500], Globals, 500,
                               "handler failed", "handler failed")]
    /\ UNCHANGED <<cachedDb, readyState, mongoUri, nodeEnv, connectCalls,
                   nArrived, nHandled>>

\* The store drops the established connection.
StoreDrop ==
    /\ readyState = Connected
    /\ readyState' = Disconnected
    /\ UNCHANGED <<cachedDb, mongoUri, nodeEnv, reqs, connectCalls,
                   nArrived, nHandled>>

\* The driver re-establishes a dropped connection on its own.
StoreRecover ==
    /\ readyState = Disconnected
    /\ cachedDb # Null
    /\ readyState' = Connected
    /\ UNCHANGED <<cachedDb, mongoUri, nodeEnv, reqs, connectCalls,
                   nArrived, nHandled>>

Next ==
    \/ \E r \in Reqs : Arrive(r)
    \/ \E r \in Reqs : BodyRead(r)
    \/ \E r \in Reqs : ConnectSucceed(r)
    \/ \E r \in Reqs : ConnectFail(r)
    \/ \E r \in Reqs : HandlerRespond(r)
    \/ \E r \in Reqs : HandlerThrow(r)
    \/ StoreDrop
    \/ StoreRecover

Spec == Init /\ [][Next]_vars

\* One step that ends a suspension of request r.
Settle(r) ==
    \/ BodyRead(r)
    \/ ConnectSucceed(r)
    \/ ConnectFail(r)
    \/ HandlerRespond(r)
    \/ HandlerThrow(r)

\* The suspensions end: a body is read to its end, a connection attempt
\* settles within serverSelectionTimeoutMS (line 66), a handler settles.
\* The event loop runs a callback that is ready.
Fairness == WF_vars(\E r \in Reqs : Settle(r))

LiveSpec == Spec /\ Fairness

\* ---------------------------------------------------------------- claims

Has(stages, stage) == \E i \in DOMAIN stages : stages[i] = stage

Passed(q) == q.ensure \in {"warm", "ok"}

\* C1: a call of connectToDatabase() that finds a cached handle and the
\* store Connected returns that handle and does not invoke
\* mongoose.connect(); the connect primitive is invoked only by calls that
\* found the cache cold or the store not Connected, so a cold call followed
\* by calls that find the store still Connected invokes it once in total.
C1_CachedHandleNoConnect ==
    /\ \A r \in Reqs :
          (Has(reqs[r].stages, "gate")
             /\ reqs[r].seenCached # Null /\ reqs[r].seenState = Connected)
          => /\ ~reqs[r].primitive
             /\ reqs[r].ensure = "warm"
             /\ reqs[r].handle = reqs[r].seenCached
    /\ connectCalls = Cardinality({r \in Reqs : reqs[r].primitive})
    /\ (\E c \in Reqs :
          /\ reqs[c].ensure = "ok"
          /\ \A r \in Reqs \ {c} :
                Has(reqs[r].stages, "gate")
                => (reqs[r].seenCached # Null
                      /\ reqs[r].seenState = Connected))
       => connectCalls = 1

\* Two calls in sequence from a cold cache: the first connected, the second
\* was served from the cache, one invocation of the primitive in all.
C1_Witness ==
    /\ reqs[1].ensure = "ok" /\ reqs[1].primitive
    /\ reqs[1].seenCached = Null
    /\ reqs[2].ensure = "warm" /\ reqs[2].handle = Mongoose
    /\ connectCalls = 1

\* C2: a request is in the Router (the health handler, a mounted route
\* group or the not-found responder has it or has answered it) only if
\* connectToDatabase() returned a handle for that same request beforehand.
C2_GateWrapsEveryRoute ==
    \A r \in Reqs :
        (\/ Has(reqs[r].stages, "router")
         \/ reqs[r].target # "none"
         \/ reqs[r].pc = "handler"
         \/ reqs[r].res.by \in {"health", "group", "notFound", "finalhandler"})
        => /\ Passed(reqs[r])
           /\ reqs[r].handle = Mongoose
           /\ Has(reqs[r].stages, "gate")
           /\ reqs[r].handledAt > 0

C2_Witness ==
    /\ reqs[1].res.by = "health" /\ reqs[1].ensure = "ok"
    /\ reqs[2].res.by = "notFound" /\ reqs[2].ensure = "warm"

\* C3: a request whose connectToDatabase() call failed is answered by the
\* gate itself with status 500, status field "error" and message
\* "Database connection failed"; the health handler, the route groups, the
\* not-found responder and the error sink do not run for it.
C3_GateFailureEnvelope ==
    \A r \in Reqs :
        reqs[r].ensure = "failed"
        => /\ reqs[r].pc = "done"
           /\ reqs[r].res.by = "gate"
           /\ reqs[r].res.code = 500
           /\ reqs[r].res.status = "error"
           /\ reqs[r].res.message = "Database connection failed"
           /\ reqs[r].target = "none"
           /\ ~Has(reqs[r].stages, "router")
           /\ ~Has(reqs[r].stages, "errorHandler")

\* A connection attempt that was started and rejected, for a health check.
C3_Witness ==
    \E r \in Reqs :
        /\ reqs[r].ensure = "failed"
        /\ mongoUri = "set"
        /\ reqs[r].method = "GET" /\ reqs[r].path = <<"api", "health">>

\* C4 as stated: every answered GET /api/health has status 200 and the
\* success envelope of the health handler, also when the connection string
\* is unset or the store is unreachable.
C4_HealthAlways200 ==
    \A r \in Reqs :
        (reqs[r].pc = "done" /\ reqs[r].method = "GET"
           /\ reqs[r].path = <<"api", "health">>)
        => /\ reqs[r].res.code = 200
           /\ reqs[r].res.status = "success"
           /\ reqs[r].res.mongoStatus \in {"connected", "disconnected"}

\* C4 as amended: a GET /api/health whose connectToDatabase() call
\* succeeded is answered 200 with the success envelope and store status
\* "connected"; one whose call failed (connection string unset, store
\* unreachable) is answered by the gate with its 500 envelope.
C4_HealthBehindGate ==
    \A r \in Reqs :
        (reqs[r].pc = "done" /\ reqs[r].method = "GET"
           /\ reqs[r].path = <<"api", "health">>)
        => \/ /\ Passed(reqs[r])
              /\ reqs[r].res.by = "health"
              /\ reqs[r].res.code = 200
              /\ reqs[r].res.status = "success"
              /\ reqs[r].res.mongoStatus = "connected"
              /\ mongoUri = "set"
           \/ /\ reqs[r].ensure = "failed"
              /\ reqs[r].res.by = "gate"
              /\ reqs[r].res.code = 500
              /\ reqs[r].res.mongoStatus = "absent"

\* Both cases: a health check answered 200 and one answered by the gate.
C4_Witness ==
    /\ reqs[1].method = "GET" /\ reqs[1].path = <<"api", "health">>
    /\ reqs[1].res.by = "gate"
    /\ reqs[2].method = "GET" /\ reqs[2].path = <<"api", "health">>
    /\ reqs[2].res.by = "health"

\* C5: an OPTIONS request is answered by the cross-origin stage at once with
\* status 200 and an empty body, and no later stage runs for it: no body
\* parsing, no sanitization, no connection attempt, no Router dispatch.
C5_PreflightShortCircuit ==
    \A r \in Reqs :
        (reqs[r].method = "OPTIONS" /\ reqs[r].pc # "new")
        => /\ reqs[r].pc = "done"
           /\ reqs[r].res.by = "cors"
           /\ reqs[r].res.code = 200
           /\ reqs[r].res.empty
           /\ reqs[r].stages = <<"cors">>
           /\ reqs[r].ensure = "none"
           /\ ~reqs[r].primitive
           /\ reqs[r].target = "none"

\* A preflight for an unmatched path on a cold process: nothing connected.
C5_Witness ==
    \E r \in Reqs :
        /\ reqs[r].method = "OPTIONS" /\ reqs[r].pc = "done"
        /\ reqs[r].path = <<"api", "nope">>
        /\ connectCalls = 0 /\ cachedDb = Null

\* C6: under LiveSpec every request that has arrived is eventually answered
\* with a response of this gateway, whatever happened to it (a failed or
\* timed-out connection attempt, an oversized body, an unmatched path, a
\* handler failure), and so is every request that arrives after it.
C6_EveryRequestAnswered ==
    \A r \in Reqs :
        (reqs[r].pc # "new")
        ~> (reqs[r].pc = "done" /\ reqs[r].res.code \in {200, 404, 413, 500})

\* A request served after the gate failed the one before it.
C6_Witness ==
    /\ reqs[1].res.by = "gate" /\ reqs[1].res.code = 500
    /\ mongoUri = "set"
    /\ reqs[2].pc = "done" /\ reqs[2].res.by = "errorHandler"
    /\ reqs[2].res.code = 413
    /\ reqs[2].handledAt = 0

\* An /api/ path that no route-table entry matches.
Unmatched(q) ==
    /\ IsApiPath(q.path)
    /\ q.path # <<"api", "health">>
    /\ \A i \in 1..Len(RouteTable) : ~IsPrefix(RouteTable[i], q.path)

\* C7 as stated: every answered request for an unmatched /api/ path has
\* status 404 and the message "API route <path> not found".
C7_UnmatchedAlways404 ==
    \A r \in Reqs :
        (reqs[r].pc = "done" /\ Unmatched(reqs[r]))
        => /\ reqs[r].res.code = 404
           /\ reqs[r].res.status = "error"
           /\ reqs[r].res.message
                = "API route " \o PathStr(reqs[r].path) \o " not found"

\* C7 as amended: a request for an unmatched /api/ path that reaches the
\* Router (not OPTIONS, body within the cap, connectToDatabase() succeeded)
\* is answered 404 with "API route <path> not found"; the others are
\* answered before the Router: OPTIONS by the cross-origin stage, an
\* oversized body by the error sink, a failed connection by the gate.
C7_UnmatchedBehindGate ==
    \A r \in Reqs :
        (reqs[r].pc = "done" /\ Unmatched(reqs[r]))
        => /\ Has(reqs[r].stages, "router")
                <=> (reqs[r].method # "OPTIONS"
                       /\ reqs[r].body # "oversized"
                       /\ Passed(reqs[r]))
           /\ Has(reqs[r].stages, "router")
                => /\ reqs[r].res.by = "notFound"
                   /\ reqs[r].res.code = 404
                   /\ reqs[r].res.status = "error"
                   /\ reqs[r].res.message
                        = "API route " \o PathStr(reqs[r].path) \o " not found"
           /\ reqs[r].method = "OPTIONS" => reqs[r].res.by = "cors"
           /\ reqs[r].body = "oversized" => reqs[r].res.by = "errorHandler"
           /\ reqs[r].ensure = "failed" => reqs[r].res.by = "gate"

C7_Witness ==
    /\ Unmatched(reqs[1]) /\ reqs[1].res.by = "gate"
    /\ Unmatched(reqs[2]) /\ reqs[2].res.code = 404
    /\ reqs[2].res.message = "API route /api/nope not found"

\* The gate has let the request through or has answered it.
Handled(q) == q.handledAt > 0

Unsuspended(q) ==
    /\ q.pc # "new"
    /\ q.method # "OPTIONS"
    /\ q.body = "none"
    /\ \/ (q.seenCached # Null /\ q.seenState = Connected)
       \/ mongoUri = "unset"

C9_WriteIsWholeReplacement ==
    (cachedDb' # cachedDb)
    => \E r \in Reqs :
          /\ reqs[r].pc = "connecting"
          /\ reqs'[r].ensure = "ok"
          /\ cachedDb' = reqs'[r].handle
          /\ cachedDb' # Null
          /\ readyState' = Connected

\* A request whose attempt succeeded is in the Router and was given the
\* handle the cache holds.
C9_AfterAttempts ==
    /\ \A r \in Reqs :
          reqs[r].ensure = "ok"
          => /\ Has(reqs[r].stages, "router")
             /\ reqs[r].handle = cachedDb
             /\ cachedDb # Null
    /\ \A r \in Reqs :
          reqs[r].pc = "connecting" => reqs[r].primitive

\* C9: with several connectToDatabase() calls pending at once and no lock,
\* every write to the cache is a whole replacement by the handle of an
\* attempt that has just succeeded, with the store Connected; every request
\* whose attempt succeeded proceeds to the Router; and once the attempts
\* have succeeded the cache holds the one handle those requests were given.
C9_ConcurrentColdStart ==
    [][C9_WriteIsWholeReplacement]_vars /\ []C9_AfterAttempts

\* Two attempts in flight at once, both succeeded, both requests routed.
C9_Witness ==
    /\ reqs[1].ensure = "ok" /\ reqs[2].ensure = "ok"
    /\ reqs[2].seenState = Connecting /\ reqs[2].seenCached = Null
    /\ connectCalls = 2
    /\ cachedDb = Mongoose
    /\ Has(reqs[1].stages, "router") /\ Has(reqs[2].stages, "router")

\* Once the cache holds a handle, no step puts a different one in it.
C10_HandleNeverReplacedByAnother ==
    (cachedDb # Null) => (cachedDb' = cachedDb)

\* Every request that passed the gate was given the handle in the cache.
C10_OneHandleForAll ==
    /\ \A r \in Reqs : Passed(reqs[r]) => reqs[r].handle = cachedDb
    /\ \A a, b \in Reqs :
          (Passed(reqs[a]) /\ Passed(reqs[b]))
          => reqs[a].handle = reqs[b].handle

\* C10: at most one handle is authoritative: the cache never holds a
\* second, different handle (once it holds a handle it holds that one for
\* good), and every request that passed the gate was given that same
\* handle.
C10_SingleAuthoritativeHandle ==
    [][C10_HandleNeverReplacedByAnother]_vars /\ []C10_OneHandleForAll

\* The cache was written twice (two successful attempts) and a request
\* reconnected after a drop: still one handle.
C10_Witness ==
    /\ reqs[1].ensure = "ok" /\ reqs[2].ensure = "ok"
    /\ reqs[2].seenCached = Mongoose /\ reqs[2].seenState = Disconnected
    /\ cachedDb = Mongoose

\* A step in which r's connectToDatabase() call fails leaves the cache as
\* it was and hands r no handle: the gate gets the error.
C11_FailureWritesNothing ==
    \A r \in Reqs :
        (reqs[r].ensure # "failed" /\ reqs'[r].ensure = "failed")
        => /\ cachedDb' = cachedDb
           /\ reqs'[r].handle = Null
           /\ reqs'[r].res.by = "gate"

\* A handle in the cache is the handle of an attempt that succeeded.
C11_OnlySuccessfulHandles ==
    cachedDb # Null
    => \E r \in Reqs : reqs[r].ensure = "ok" /\ reqs[r].handle = cachedDb

\* C11: when the connection attempt of a connectToDatabase() call fails,
\* the caller gets the error and the attempt writes nothing to the cache:
\* the cache holds the same value after the failed attempt as before it,
\* and never a handle from an attempt that did not succeed.
C11_FailedAttemptLeavesCache ==
    [][C11_FailureWritesNothing]_vars /\ []C11_OnlySuccessfulHandles

\* A failed reconnect with a handle in the cache: the handle is still there.
C11_Witness ==
    /\ reqs[1].ensure = "ok"
    /\ reqs[2].ensure = "failed" /\ reqs[2].seenCached = Mongoose
    /\ reqs[2].handle = Null
    /\ cachedDb = Mongoose

\* C12: no request invokes mongoose.connect() more than once, a request
\* whose one attempt failed is answered by the gate without a retry, and a
\* failure is not remembered: whatever failed before, a request that finds
\* the cache cold or the store not Connected starts an attempt of its own.
C12_NoRetryNoFailedState ==
    /\ \A r \in Reqs :
          /\ reqs[r].attempts <= 1
          /\ reqs[r].ensure = "failed"
             => /\ reqs[r].attempts = 1
                /\ reqs[r].pc = "done"
                /\ reqs[r].res.by = "gate"
          /\ (Has(reqs[r].stages, "gate")
                /\ ~(reqs[r].seenCached # Null
                       /\ reqs[r].seenState = Connected))
             => reqs[r].attempts = 1
    /\ connectCalls = Cardinality({r \in Reqs : reqs[r].attempts = 1})

\* Request 1 was answered with the connection-failure 500; request 2 came
\* after it, started its own attempt and got through.
C12_Witness ==
    /\ reqs[1].ensure = "failed" /\ reqs[1].res.code = 500
    /\ reqs[1].seenCached = Null /\ reqs[1].seenState = Disconnected
    /\ reqs[2].seenCached = Null /\ reqs[2].seenState = Disconnected
    /\ reqs[2].ensure = "ok" /\ reqs[2].attempts = 1
    /\ connectCalls = 2

\* C13: a request whose body exceeds the 10mb limit fails in the body parser
\* with a 413 error that goes straight to the error sink; the gate does not
\* run for it, no connection is attempted for it and no handler gets it.
C13_OversizedBodyStopsAtParser ==
    \A r \in Reqs :
        (reqs[r].body = "oversized" /\ reqs[r].pc # "new")
        => /\ reqs[r].pc \in {"body", "done"}
           /\ ~Has(reqs[r].stages, "gate")
           /\ ~Has(reqs[r].stages, "router")
           /\ reqs[r].attempts = 0
           /\ reqs[r].ensure = "none"
           /\ reqs[r].target = "none"
           /\ reqs[r].pc = "done"
              => /\ reqs[r].raised = 413
                 /\ reqs[r].stages = <<"cors", "helmet", "json", "errorHandler">>
                 /\ reqs[r].res.by = "errorHandler"

\* An oversized POST to a mounted route group on a cold process.
C13_Witness ==
    \E r \in Reqs :
        /\ reqs[r].body = "oversized" /\ reqs[r].pc = "done"
        /\ reqs[r].path = <<"api", "patients", "7">>
        /\ reqs[r].raised = 413
        /\ connectCalls = 0

\* The stages in the order the claim gives them: cross-origin policy,
\* hardening headers, body decoding, input sanitization, parameter-pollution
\* guard, response compression, connection gate, Router dispatch.
StageOrder ==
    << "cors", "helmet", "json", "urlencoded", "mongoSanitize", "xss",
       "hpp", "compression", "gate", "router" >>

\* The stages of a request without the error sink at their end.
BeforeSink(stages) ==
    IF stages # <<>> /\ stages[Len(stages)] = "errorHandler"
    THEN SubSeq(stages, 1, Len(stages) - 1)
    ELSE stages

\* C14: the stages a request has run are an initial part of the one fixed
\* order (so a stage has run only after every earlier one, and none after a
\* stage that answered the request), and the error sink runs only as the
\* last stage of a request for which a stage or a handler raised a failure.
C14_FixedStageOrder ==
    \A r \in Reqs :
        LET st == BeforeSink(reqs[r].stages)
        IN  /\ Len(st) <= Len(StageOrder)
            /\ st = SubSeq(StageOrder, 1, Len(st))
            /\ Has(reqs[r].stages, "errorHandler")
               => /\ reqs[r].raised \in {413, 500}
                  /\ reqs[r].pc = "done"
            /\ (reqs[r].pc = "done" /\ reqs[r].res.by \in {"cors", "gate"})
               => reqs[r].stages[Len(reqs[r].stages)] = reqs[r].res.by

\* A request that ran every stage in order and whose handler then failed.
C14_Witness ==
    \E r \in Reqs :
        /\ reqs[r].stages = StageOrder \o <<"errorHandler">>
        /\ reqs[r].raised = 500

\* C15: the gate's connection-failure envelope carries the raw error detail
\* if and only if NODE_ENV is "development"; with any other value, and with
\* the flag unset, the field is omitted.
C15_DetailOnlyInDevelopment ==
    \A r \in Reqs :
        reqs[r].res.by = "gate"
        => /\ (reqs[r].res.error # "undefined") <=> (nodeEnv = "development")
           /\ nodeEnv = "development"
              => reqs[r].res.error
                   \in {"server selection timed out", "uri must be a string"}

\* A failure answered with the flag unset: no detail in the envelope.
C15_Witness ==
    \E r \in Reqs :
        /\ reqs[r].res.by = "gate"
        /\ nodeEnv = "unset"
        /\ mongoUri = "set"
        /\ reqs[r].res.error = "undefined"

\* A development process: the detail is in the envelope.
C15_WitnessDevelopment ==
    \E r \in Reqs :
        /\ reqs[r].res.by = "gate"
        /\ nodeEnv = "development"
        /\ reqs[r].res.error = "server selection timed out"

\* C16: once a request is at the gate or beyond it (awaiting its
\* connection, in a handler, answered by the Router), its input holds no
\* key that begins with $: a body {"$where": ...} has lost that key in the
\* sanitization stage, while its other keys are still there.
C16_NoOperatorKeyPastSanitizer ==
    \A r \in Reqs :
        /\ (Has(reqs[r].stages, "gate") \/ reqs[r].pc \in {"connecting", "handler"}
              \/ reqs[r].target # "none")
           => /\ \A k \in reqs[r].input : k[1] # "$"
              /\ reqs[r].body = "sigil"
                 => <<"n", "a", "m", "e">> \in reqs[r].input
        /\ Has(reqs[r].stages, "mongoSanitize")
           => \A k \in reqs[r].input : k[1] # "$"

\* The body with "$where" has reached the handler without that key.
C16_Witness ==
    \E r \in Reqs :
        /\ reqs[r].body = "sigil"
        /\ reqs[r].pc = "handler"
        /\ <<"$", "w", "h", "e", "r", "e">> \notin reqs[r].input
        /\ reqs[r].input = { <<"n", "a", "m", "e">>, <<"a", "$", "b">> }

\* A request runs connectToDatabase() in this step.
EntersGate(r) ==
    /\ ~Has(reqs[r].stages, "gate")
    /\ Has(reqs'[r].stages, "gate")

\* The step in which a request calls connectToDatabase() invokes
\* mongoose.connect() exactly when the cache is empty or the store is not
\* Connected, as the cache and the store are at that moment.
C17_AttemptExactlyWhenCold ==
    \A r \in Reqs :
        EntersGate(r)
        => /\ (connectCalls' = connectCalls + 1)
                <=> (cachedDb = Null \/ readyState # Connected)
           /\ (connectCalls' = connectCalls)
                <=> (cachedDb # Null /\ readyState = Connected)
           /\ reqs'[r].attempts = connectCalls' - connectCalls

\* The step in which an attempt succeeds puts its handle in the cache.
C17_SuccessReplacesHandle ==
    \A r \in Reqs :
        (reqs[r].ensure # "ok" /\ reqs'[r].ensure = "ok")
        => /\ cachedDb' = reqs'[r].handle
           /\ cachedDb' # Null
           /\ reqs[r].pc = "connecting"

\* What each request saw and did at the gate.
C17_SeenAndDone ==
    \A r \in Reqs :
        Has(reqs[r].stages, "gate")
        => /\ (reqs[r].attempts = 1)
                <=> (reqs[r].seenCached = Null
                       \/ reqs[r].seenState # Connected)
           /\ (reqs[r].attempts = 0)
                <=> (reqs[r].seenCached # Null
                       /\ reqs[r].seenState = Connected)
           /\ reqs[r].primitive <=> (reqs[r].attempts = 1)
           /\ reqs[r].seenState = Connecting => reqs[r].attempts = 1

\* C17: connectToDatabase() invokes mongoose.connect() exactly when the
\* cache is empty or the store state is not Connected; a cached handle found
\* invalid is replaced by the handle of the new successful attempt, and a
\* call made while another attempt is Connecting makes its own invocation.
C17_NewAttemptWhenColdOrInvalid ==
    /\ [][C17_AttemptExactlyWhenCold /\ C17_SuccessReplacesHandle]_vars
    /\ []C17_SeenAndDone

\* A request found a cached handle with the store Disconnected, made an
\* attempt of its own, and the handle of that attempt is now in the cache.
C17_Witness ==
    \E r \in Reqs :
        /\ reqs[r].seenCached # Null
        /\ reqs[r].seenState = Disconnected
        /\ reqs[r].attempts = 1
        /\ reqs[r].ensure = "ok"
        /\ cachedDb = reqs[r].handle

\* A call made while the attempt of another request is still pending.
C17_WitnessConcurrent ==
    /\ reqs[1].pc = "connecting"
    /\ reqs[2].pc = "connecting"
    /\ reqs[2].seenState = Connecting
    /\ reqs[2].attempts = 1
    /\ connectCalls = 2

\* C18: no step empties the cache: once a handle is cached it stays cached,
\* also across a disconnect of the store and across later attempts that
\* fail (so a non-empty cache does not mean the store is Connected).
C18_CacheNeverEmptied ==
    [][cachedDb # Null => cachedDb' # Null /\ cachedDb' = cachedDb]_vars

\* A handle is cached, the store is Disconnected, and the attempt of a
\* later request that saw the cached handle has failed.
C18_Witness ==
    /\ cachedDb # Null
    /\ readyState = Disconnected
    /\ \E r \in Reqs :
          /\ reqs[r].ensure = "failed"
          /\ reqs[r].seenCached # Null
          /\ reqs[r].res.code = 500

\* The entries of the route table whose prefix matches a path at a segment
\* boundary.
Matching(path) == { i \in 1..Len(RouteTable) : IsPrefix(RouteTable[i], path) }

\* No two entries of the table have the same prefix, none lies under
\* another, and none lies on or over the health path.
UniquePrefixes ==
    /\ \A i, j \in 1..Len(RouteTable) :
          i # j => /\ RouteTable[i] # RouteTable[j]
                   /\ ~IsPrefix(RouteTable[i], RouteTable[j])
    /\ \A i \in 1..Len(RouteTable) :
          /\ ~IsPrefix(RouteTable[i], <<"api", "health">>)
          /\ ~IsPrefix(<<"api", "health">>, RouteTable[i])

\* The claim as it stands, for every request that passed the gate: the
\* target is the health handler, a route group or the not-found responder.
\* A path outside /api/ refutes it: it matches neither a group nor '/api/*'.
C19_EveryPassedRequestInTable ==
    \A r \in Reqs :
        Has(reqs[r].stages, "router")
        => reqs[r].target
             \in {"health", "notFound"}
                   \cup { PathStr(RouteTable[i]) : i \in 1..Len(RouteTable) }

\* C19: the route table has no two entries with a shared prefix, so a
\* request for a path under /api/ that passed the gate has exactly one
\* target: the health handler for GET /api/health, else the one group whose
\* prefix matches the path at a segment boundary, else the '/api/*'
\* responder; a request for a path outside /api/ that passed the gate has
\* none of these and gets the framework's own 404.
C19_OneTargetUnderApi ==
    /\ UniquePrefixes
    /\ \A r \in Reqs :
          LET q == reqs[r]
              m == Matching(q.path)
          IN  /\ Cardinality(m) <= 1
              /\ Has(q.stages, "router") <=> q.target # "none"
              /\ Has(q.stages, "router") => Passed(q)
              /\ (Has(q.stages, "router") /\ IsApiPath(q.path))
                 => /\ (q.target = "health")
                         <=> (q.method = "GET" /\ q.path = <<"api", "health">>)
                    /\ q.target = "health" => q.res.by = "health"
                    /\ (q.target # "health" /\ m # {})
                         => /\ \A i \in m : q.target = PathStr(RouteTable[i])
                            /\ q.res.by \in {"none", "group", "errorHandler"}
                    /\ (q.target # "health" /\ m = {})
                         => /\ q.target = "notFound"
                            /\ q.res.by = "notFound"
              /\ (Has(q.stages, "router") /\ ~IsApiPath(q.path))
                 => /\ q.target = "finalhandler"
                    /\ q.res.code = 404

\* One request is with the theatre-procedures group (not with theatres),
\* another was answered by the '/api/*' responder.
C19_Witness ==
    \E r, o \in Reqs :
        /\ reqs[r].path = <<"api", "theatre-procedures">>
        /\ reqs[r].target = "/api/theatre-procedures"
        /\ reqs[r].pc = "handler"
        /\ reqs[o].path = <<"api", "nope">>
        /\ reqs[o].target = "notFound"

\* A request for the health endpoint that the Router gives to the handler.
IsHealthRequest(q) == q.method = "GET" /\ q.path = <<"api", "health">>

\* The step in which the health handler answers leaves the store Connected:
\* the handler read readyState in the step that saw or made it Connected.
C20_AnsweredWhileConnected ==
    \A r \in Reqs :
        (reqs[r].res.by # "health" /\ reqs'[r].res.by = "health")
        => /\ readyState' = Connected
           /\ cachedDb' # Null
           /\ reqs'[r].res.mongoStatus = "connected"

\* What a finished health request has got.
C20_HealthOr500 ==
    \A r \in Reqs :
        /\ reqs[r].res.mongoStatus # "disconnected"
        /\ reqs[r].res.by = "health"
           => /\ reqs[r].res.code = 200
              /\ reqs[r].res.mongoStatus = "connected"
              /\ Passed(reqs[r])
        /\ (reqs[r].pc = "done" /\ IsHealthRequest(reqs[r]))
           => \/ reqs[r].res.by = "health"
              \/ /\ reqs[r].res.by = "gate"
                 /\ reqs[r].res.code = 500
                 /\ reqs[r].ensure = "failed"
                 /\ reqs[r].res.mongoStatus = "absent"

\* C20: the health handler runs in the step in which connectToDatabase()
\* succeeded, so every 200 response of GET /api/health says "connected",
\* "disconnected" is never produced, and a store outage reaches the client
\* of the health endpoint only as the gate's 500 envelope.
C20_HealthNeverDisconnected ==
    [][C20_AnsweredWhileConnected]_vars /\ []C20_HealthOr500

\* One health check answered "connected"; then the store went away and the
\* next health check got the gate's 500.
C20_Witness ==
    /\ IsHealthRequest(reqs[1]) /\ reqs[1].res.mongoStatus = "connected"
    /\ IsHealthRequest(reqs[2]) /\ reqs[2].res.by = "gate"
    /\ reqs[2].seenCached # Null
    /\ readyState = Disconnected

====
